---- MODULE Spec2Model ----
(***************************************************************************)
(* A model of robustnessgym.slicebuilders.slicebuilder.SliceBuilder:       *)
(* the top-level call, the prerequisite check, the preparation pass, the   *)
(* transform pass with its assembly of slices and membership matrix, and   *)
(* the cache retrieval path.                                               *)
(*                                                                         *)
(* An example of the dataset is its 0-based index.  A batch, a sub-batch   *)
(* and a slice are sequences of examples.  A membership matrix is a record *)
(* [ncols, rows], rows being a sequence of boolean rows.                   *)
(***************************************************************************)
EXTENDS Integers, Sequences, FiniteSets, TLC

VARIABLES
    identifiers,            \* self.identifiers
    category,               \* self.category
    prerequisites,          \* self.prerequisites
    kind,                   \* which process_batch the builder's class has
    prep_impl,              \* whether the class overrides prepare_batch
    prepared,               \* builder state accumulated by prepare_batch
    dataset,                \* the examples of dp, in order
    pc,                     \* position of the call in progress
    entry,                  \* "call" (__call__) or "direct" (process_dataset)
    is_raw,                 \* not isinstance(dp, DataPanel)
    columns,                \* the columns argument
    batch_size,             \* batch_size of __call__
    num_proc,               \* num_proc of __call__ / process_dataset
    proc_batch_size,        \* batch_size inside process_dataset
    pos,                    \* examples consumed by the running batch loop
    prep_log,               \* batches handed to prepare_batch
    proc_log,               \* batches handed to process_batch
    avail_checks,           \* evaluations of prerequisite.available
    last_available,         \* the prerequisites that reported available
    call_args,              \* the arguments the caller gave __call__
    slices,                 \* process_dataset: the per-slice accumulators
    all_slice_memberships,  \* process_dataset: the list of submatrices
    result,                 \* what the call returned
    error,                  \* the exception that reached the caller
    trace,                  \* the phases the call went through, in order
    r_batch,                \* the dataset handed to retrieve
    r_args,                 \* the arguments of the retrieve call
    r_out,                  \* what the retrieve call returned or raised
    f_batch,                \* the batch handed to filter_batch_by_slice_membership
    f_matrix,               \* the matrix handed to it
    f_out                   \* what it returned

vars == <<identifiers, category, prerequisites, kind, prep_impl, prepared,
          dataset, pc, entry, is_raw, columns, batch_size, num_proc,
          proc_batch_size, pos, prep_log, proc_log, avail_checks,
          last_available, call_args, slices, all_slice_memberships, result,
          error, trace, r_batch, r_args, r_out, f_batch, f_matrix, f_out>>

retrieve_vars == <<r_batch, r_args, r_out>>

filter_vars == <<f_batch, f_matrix, f_out>>

call_vars == <<prepared, dataset, pc, entry, is_raw, columns, batch_size,
               num_proc, proc_batch_size, pos, prep_log, proc_log,
               avail_checks, last_available, call_args, slices,
               all_slice_memberships, result, error, trace>>

builder_vars == <<identifiers, category, prerequisites, kind, prep_impl>>

(***************************************************************************)
(* Bounds of the model.                                                    *)
(***************************************************************************)
MaxExamples == 5
MaxBatchSize == 3
MaxSlices == 2
MaxCached == 2
MaxRows == 3

(***************************************************************************)
(* Program constants: the default batch sizes.                             *)
(***************************************************************************)
CallDefaultBatchSize == 100
ProcessDefaultBatchSize == 32

\* Python's None; every value that may be None is a record
None == [none |-> TRUE]

CATEGORIES == {"generic", "subpopulation", "attack", "transformation", "curation"}

\* str.capitalize on the categories
capitalize(c) ==
    CASE c = "generic" -> "Generic"
      [] c = "subpopulation" -> "Subpopulation"
      [] c = "attack" -> "Attack"
      [] c = "transformation" -> "Transformation"
      [] c = "curation" -> "Curation"

\* The identifiers of a builder with k slices
Identifiers(k) == [j \in 1..k |-> [name |-> "SliceBuilder", index |-> j - 1]]

AllPrerequisites == {"p1", "p2"}

ColumnLists == {<<"a", "b">>, <<"b", "a">>}

\* The classes of builder: the base class, whose process_batch is not
\* overridden, and subclasses whose process_batch assigns each example to
\* slices by a per-example rule.  "short" and "long" return one sub-batch too
\* few and one too many.
Kinds == {"identity", "mod", "all", "first", "short", "long"}

Min(a, b) == IF a < b THEN a ELSE b

RECURSIVE Flatten(_)
Flatten(ss) == IF ss = <<>> THEN <<>> ELSE Head(ss) \o Flatten(Tail(ss))

\* itertools.compress(v, s)
RECURSIVE compress(_, _)
compress(v, s) ==
    IF v = <<>> \/ s = <<>> THEN <<>>
    ELSE (IF Head(s) THEN <<Head(v)>> ELSE <<>>) \o compress(Tail(v), Tail(s))

num_slices == Len(identifiers)

\* BatchAt with an iterator that never advances
BatchAt_FromStart(dp, p, size) == SubSeq(dp, 1, Min(size, Len(dp)))

\* dp.batch(size): the batch that starts at example p
BatchAt(dp, p, size) == SubSeq(dp, p + 1, Min(p + size, Len(dp)))

\* strings_as_json(columns): the JSON text of the list of column names
RECURSIVE JoinQuoted(_)
JoinQuoted(cols) ==
    IF cols = <<>> THEN ""
    ELSE IF Len(cols) = 1 THEN "\"" \o cols[1] \o "\""
    ELSE "\"" \o cols[1] \o "\", " \o JoinQuoted(Tail(cols))

strings_as_json(cols) == "[" \o JoinQuoted(cols) \o "]"

(***************************************************************************)
(* The batch transformer.                                                  *)
(***************************************************************************)
\* The per-example rule of a subclass: is example i in slice j (0-based),
\* for a builder with k identifiers.
Member(kd, k, i, j) ==
    CASE kd = "all" -> TRUE
      [] kd = "first" -> j = 0
      [] OTHER -> i % k = j

\* The membership submatrix a subclass computes for a batch: one row per
\* example of the batch, in the batch's order, one column per identifier.
RuleMatrix(kd, k, batch) ==
    [ncols |-> k,
     rows |-> [r \in 1..Len(batch) |->
                  [j \in 1..k |-> Member(kd, k, batch[r], j - 1)]]]

\* slice_membership.T[j]
Column(m, j) == [r \in 1..Len(m.rows) |-> m.rows[r][j]]

\* The rows of a batch that each column of a submatrix selects
FilterRows(batch, slice_membership) ==
    [j \in 1..slice_membership.ncols |->
        compress(batch, Column(slice_membership, j))]

\* process_batch of the base class: the batch, unchanged, and no matrix
base_process_batch(batch) ==
    [sliced_batches |-> <<batch>>, slice_memberships |-> None]

\* process_batch of a subclass that filters by its rule
rule_process_batch(kd, k, batch) ==
    LET m == RuleMatrix(kd, k, batch)
        f == FilterRows(batch, m)
    IN  [sliced_batches |->
            CASE kd = "short" -> SubSeq(f, 1, k - 1)
              [] kd = "long" -> Append(f, batch)
              [] OTHER -> f,
         slice_memberships |-> m]

process_batch(kd, k, batch) ==
    IF kd = "identity" THEN base_process_batch(batch)
    ELSE rule_process_batch(kd, k, batch)

(***************************************************************************)
(* The assembly steps of process_dataset.                                  *)
(***************************************************************************)
\* slices = [[DataPanel()] for _ in range(len(self.identifiers))]
EmptyAccumulators(k) == [j \in 1..k |-> << <<>> >>]

\* ZipAppend that pairs to the longer of the two lists, as zip_longest does
ZipAppend_Longest(acc, sliced_batches) ==
    [j \in 1..(IF Len(acc) > Len(sliced_batches) THEN Len(acc)
               ELSE Len(sliced_batches)) |->
        IF j > Len(acc) THEN <<sliced_batches[j]>>
        ELSE IF j <= Len(sliced_batches) THEN Append(acc[j], sliced_batches[j])
        ELSE acc[j]]

\* ZipAppend with each sub-batch put in front of its accumulator
ZipAppend_Prepend(acc, sliced_batches) ==
    [j \in 1..Len(acc) |->
        IF j <= Len(sliced_batches) THEN <<sliced_batches[j]>> \o acc[j]
        ELSE acc[j]]

\* for sl, sl_batch in zip(slices, sliced_batches): sl.append(sl_batch)
ZipAppend(acc, sliced_batches) ==
    [j \in 1..Len(acc) |->
        IF j <= Len(sliced_batches) THEN Append(acc[j], sliced_batches[j])
        ELSE acc[j]]

\* np.concatenate(arrays, axis=0): a ValueError for an empty list, for an
\* element that is no array (None), and for arrays of different widths
Exception(type, msg, pending) ==
    [type |-> type, msg |-> msg, pending |-> pending]

ValueError(msg) == [type |-> "ValueError", msg |-> msg]

np_concatenate(arrays) ==
    IF arrays = <<>>
    THEN ValueError("need at least one array to concatenate")
    ELSE IF \E a \in 1..Len(arrays) : arrays[a] = None
    THEN ValueError("zero-dimensional arrays cannot be concatenated")
    ELSE IF \E a \in 1..Len(arrays) : arrays[a].ncols # arrays[1].ncols
    THEN ValueError("array dimensions must match")
    ELSE [ncols |-> arrays[1].ncols,
          rows |-> Flatten([a \in 1..Len(arrays) |-> arrays[a].rows])]

\* mosaic.concat(e, axis=0)
mosaic_concat(e) == Flatten(e)

\* sl.category = ...; sl.add_to_lineage(...)
Tagged(rows, cat, ident, cols) ==
    [rows |-> rows,
     category |-> cat,
     lineage |-> <<[category |-> capitalize(cat),
                    identifier |-> ident,
                    columns |-> strings_as_json(cols)]>>]

\* FinalSlices with every slice tagged with the first identifier
FinalSlices_FirstIdentifier(acc, cat, idents, cols) ==
    [j \in 1..Len(acc) |-> Tagged(mosaic_concat(acc[j]), cat, idents[1], cols)]

\* for i, sl in enumerate(slices): the concatenated slice i, tagged with
\* the category, identifiers[i] and the columns
FinalSlices(acc, cat, idents, cols) ==
    [j \in 1..Len(acc) |-> Tagged(mosaic_concat(acc[j]), cat, idents[j], cols)]

(***************************************************************************)
(* retrieve                                                                *)
(*                                                                         *)
(* A string that startswith is applied to is a sequence of chunks of       *)
(* characters.  A dataset handed to retrieve is the set of its column      *)
(* names, its number of examples, the keys of batch["slices"][0] in their  *)
(* order, and the entries of its "cache" column.  A cache entry maps       *)
(* identifier strings to maps from column-set keys to encoded values.      *)
(***************************************************************************)
ClsName == <<"SliceBuilder">>

SB0 == <<"SliceBuilder", "(0)">>
SBPlus == <<"SliceBuilder", "Plus", "(0)">>
Other == <<"Other", "(0)">>

\* ident_key.startswith(cls.__name__)
startswith(s, prefix) ==
    Len(s) >= Len(prefix) /\ SubSeq(s, 1, Len(prefix)) = prefix

\* str(identifier)
str(identifier) == IF identifier = None THEN <<"None">> ELSE identifier.str

\* The encoded value a producing run stored, and cls.decode
Encoded(v) == [enc |-> v]

decode(e) == e.enc

\* The column the guard of retrieve looks for
GuardColumn == "slices"

\* The loop that infers the identifier: the first key of
\* batch["slices"][0] that starts with the class name, None without one
RECURSIVE InferIdentifier(_)
InferIdentifier(keys) ==
    IF keys = <<>> THEN None
    ELSE IF startswith(Head(keys), ClsName) THEN [str |-> Head(keys)]
    ELSE InferIdentifier(Tail(keys))

\* cache[str(identifier)][strings_as_json(cols)] raises KeyError
KeyMissing(cache, idstr, cols) ==
    \/ idstr \notin DOMAIN cache
    \/ strings_as_json(cols) \notin DOMAIN cache[idstr]

\* The dictionary the try block of retrieve builds
Retrieval(batch, idstr, lists) ==
    [ck \in {strings_as_json(lists[l]) : l \in 1..Len(lists)} |->
        [i \in 1..Len(batch.cache) |-> decode(batch.cache[i][idstr][ck])]]

Returned(v) == [status |-> "returned", value |-> v, exc |-> None]

Raised(e) == [status |-> "raised", value |-> None, exc |-> e]

\* What the except clause of retrieve turns a KeyError into
OnKeyError ==
    Raised(Exception("ValueError",
                     "Could not retrieve information for all keys.", {}))

\* retrieve(batch, columns, proc_fns, identifier, reapply); column_error is
\* the exception the dataset raises for a column it does not have
retrieve(batch, cols, proc_fns, identifier, reapply, column_error) ==
    IF reapply THEN Returned(None)
    ELSE IF GuardColumn \notin batch.column_names THEN Returned(None)
    ELSE IF identifier = None /\ batch.length = 0
    THEN Raised(Exception("IndexError", "batch[\"slices\"][0]", {}))
    ELSE
      LET ident == IF identifier = None
                   THEN InferIdentifier(batch.slices0_keys)
                   ELSE identifier
          idstr == str(ident)
      IN  IF cols.kind = "empty"
          THEN Raised(Exception("IndexError", "columns[0]", {}))
          ELSE IF "cache" \notin batch.column_names
          THEN IF column_error = "KeyError" THEN OnKeyError
               ELSE Raised(Exception(column_error, "batch[\"cache\"]", {}))
          ELSE IF \E i \in 1..Len(batch.cache), l \in 1..Len(cols.lists) :
                     KeyMissing(batch.cache[i], idstr, cols.lists[l])
          THEN OnKeyError
          ELSE IF ~proc_fns
          THEN Returned([dict |-> Retrieval(batch, idstr, cols.lists)])
          ELSE Returned(None)

\* The datasets, arguments and outcomes the model draws from
CacheIds == {SB0, Other}

ColumnSetKeys == {{}, {<<"a">>}, {<<"a">>, <<"a", "b">>}}

\* The shapes of a cache entry: each identifier absent, or present with one
\* of the sets of column-set keys
CacheShapes ==
    UNION {[ids -> ColumnSetKeys \ {{}}] : ids \in SUBSET CacheIds}

EntryOf(i, shape) ==
    [id \in DOMAIN shape |->
        [ck \in {strings_as_json(c) : c \in shape[id]} |->
            Encoded([example |-> i - 1, id |-> id, key |-> ck])]]

RECURSIVE Perms(_)
Perms(S) ==
    IF S = {} THEN {<<>>}
    ELSE UNION {{<<x>> \o p : p \in Perms(S \ {x})} : x \in S}

SliceKeyLists == UNION {Perms(S) : S \in SUBSET {SB0, SBPlus, Other}}

RBatches ==
    {[column_names |-> cn, length |-> n, slices0_keys |-> sk, cache |-> c] :
        cn \in SUBSET {"slices", "cache"}, n \in 0..MaxCached,
        sk \in SliceKeyLists,
        c \in UNION {[1..m -> CacheShapes] : m \in 0..MaxCached}}

ValidRBatch(b) ==
    /\ Len(b.cache) = (IF "cache" \in b.column_names THEN b.length ELSE 0)
    /\ ("slices" \notin b.column_names \/ b.length = 0) => b.slices0_keys = <<>>

ColumnArgs ==
    {[kind |-> "single", lists |-> << <<"a">> >>],
     [kind |-> "single", lists |-> << <<"b", "a">> >>],
     [kind |-> "multi", lists |-> << <<"a">>, <<"a", "b">> >>],
     [kind |-> "empty", lists |-> <<>>]}

IdentifierArgs == {None, [str |-> SB0], [str |-> Other]}

ColumnErrors == {"KeyError", "AttributeError"}

NoBatch ==
    [column_names |-> {}, length |-> 0, slices0_keys |-> <<>>, cache |-> <<>>]

NoOutcome == [status |-> "none", value |-> None, exc |-> None]

(***************************************************************************)
(* filter_batch_by_slice_membership                                        *)
(*                                                                         *)
(* A columnar batch maps each column name to the list of its values, one   *)
(* per row.                                                                *)
(***************************************************************************)
\* The function with the rows of slice_membership in place of the rows of
\* its transpose
filter_batch_by_slice_membership_NoTranspose(batch, slice_membership) ==
    [r \in 1..Len(slice_membership.rows) |->
        [c \in DOMAIN batch |-> compress(batch[c], slice_membership.rows[r])]]

\* [tz.valmap(lambda v: list(compress(v, s)), batch)
\*  for s in slice_membership.T]
filter_batch_by_slice_membership(batch, slice_membership) ==
    [j \in 1..slice_membership.ncols |->
        [c \in DOMAIN batch |->
            compress(batch[c], Column(slice_membership, j))]]

\* The batch of n rows with the given columns
MakeBatch(cols, n) ==
    [c \in cols |-> [r \in 1..n |-> IF c = "text" THEN r - 1 ELSE (r - 1) % 2]]

BatchColumns == {"text", "label"}

\* The boolean matrices of shape (n, m)
Matrices(n, m) ==
    {[ncols |-> m, rows |-> rows] : rows \in [1..n -> [1..m -> BOOLEAN]]}

NoFilterCall ==
    /\ f_batch = MakeBatch({}, 0)
    /\ f_matrix = [ncols |-> 0, rows |-> <<>>]
    /\ f_out = [status |-> "none", value |-> <<>>]

(***************************************************************************)
(* The state after construction of a builder and of a dataset.             *)
(***************************************************************************)
Idle ==
    /\ pc = "idle"
    /\ entry = "none"
    /\ is_raw = FALSE
    /\ columns = <<>>
    /\ batch_size = 0
    /\ num_proc = None
    /\ proc_batch_size = 0
    /\ pos = 0
    /\ prepared = <<>>
    /\ prep_log = <<>>
    /\ proc_log = <<>>
    /\ avail_checks = 0
    /\ last_available = None
    /\ call_args = None
    /\ slices = <<>>
    /\ all_slice_memberships = <<>>
    /\ result = None
    /\ error = None
    /\ trace = <<>>

Init ==
    /\ identifiers \in {Identifiers(k) : k \in 0..MaxSlices}
    /\ category \in CATEGORIES
    /\ prerequisites \in SUBSET AllPrerequisites
    /\ kind \in Kinds
    /\ prep_impl \in BOOLEAN
    /\ dataset \in {[i \in 1..n |-> i - 1] : n \in 0..MaxExamples}
    /\ Idle
    /\ r_batch = NoBatch
    /\ r_args = None
    /\ r_out = NoOutcome
    /\ NoFilterCall

NumProcs == {None, [n |-> 2]}

(***************************************************************************)
(* __call__                                                                *)
(***************************************************************************)
\* The entry of process_dataset: its accumulators, and its batch loop at
\* the first batch.
EnterProcessDataset(bs) ==
    /\ pc' = "process"
    /\ proc_batch_size' = bs
    /\ pos' = 0
    /\ slices' = EmptyAccumulators(Len(identifiers))
    /\ all_slice_memberships' = <<>>

\* The batch size process_dataset runs with when __call__ invokes it:
\* __call__ passes dp, columns and num_proc, so the default applies.
CallProcessBatchSize(bs) == ProcessDefaultBatchSize

\* The batch size and num_proc of the re-invocation on the wrapped input:
\* __call__ passes dp and columns, so the defaults apply.
WrappedBatchSize(bs) == CallDefaultBatchSize

WrappedNumProc(np) == None

\* A caller invokes the builder on a dataset or on a raw input.
Call(raw, cols, bs, np) ==
    /\ pc = "idle"
    /\ pc' = "prereq"
    /\ entry' = "call"
    /\ is_raw' = raw
    /\ columns' = cols
    /\ batch_size' = bs
    /\ num_proc' = np
    /\ call_args' = [raw |-> raw, columns |-> cols, batch_size |-> bs,
                     num_proc |-> np]
    /\ UNCHANGED <<retrieve_vars, filter_vars>>
    /\ UNCHANGED <<builder_vars, prepared, dataset, proc_batch_size, pos,
                   prep_log, proc_log, avail_checks, last_available, slices,
                   all_slice_memberships, result, error, trace>>

\* Pending with the test inverted
Pending_Inverted(prereqs, available) == {p \in prereqs : p \in available}

\* The set of prerequisites whose availability check fails, given the set
\* of those that report available
Pending(prereqs, available) == {p \in prereqs : p \notin available}

\* prerequisites_handler(dp), and the branch of __call__ that follows it:
\* on a dataset the preparation pass starts, a raw input is wrapped and the
\* builder invoked again.
PrerequisitesHandler ==
    /\ pc = "prereq"
    /\ \E available \in SUBSET prerequisites :
         LET pending == Pending(prerequisites, available)
         IN  /\ avail_checks' = avail_checks + Cardinality(prerequisites)
             /\ last_available' = [set |-> available]
             /\ trace' = Append(trace, "prerequisites_handler")
             /\ IF pending # {}
                THEN /\ pc' = "error"
                     /\ error' = Exception("RuntimeError",
                            "Cannot run SliceBuilder, prerequisites not satisfied.",
                            pending)
                     /\ UNCHANGED <<is_raw, batch_size, num_proc, pos>>
                ELSE IF ~is_raw
                THEN /\ pc' = "prepare"
                     /\ pos' = 0
                     /\ UNCHANGED <<is_raw, batch_size, num_proc, error>>
                ELSE /\ pc' = "prereq"
                     /\ is_raw' = FALSE
                     /\ batch_size' = WrappedBatchSize(batch_size)
                     /\ num_proc' = WrappedNumProc(num_proc)
                     /\ UNCHANGED <<pos, error>>
    /\ UNCHANGED <<retrieve_vars, filter_vars>>
    /\ UNCHANGED <<builder_vars, prepared, dataset, entry, columns,
                   proc_batch_size, prep_log, proc_log, call_args, slices,
                   all_slice_memberships, result>>

(***************************************************************************)
(* prepare_dataset                                                         *)
(***************************************************************************)
\* BreakOnNotImplemented with `continue` in place of `break`
ContinueOnNotImplemented == FALSE

\* What the batch loop of prepare_dataset does after prepare_batch raised
\* NotImplementedError: break (TRUE) or go on with the next batch (FALSE)
BreakOnNotImplemented == TRUE

\* One iteration of the batch loop of prepare_dataset: prepare_batch on the
\* next batch.  The base class raises NotImplementedError; an overriding
\* class updates the builder's state, or raises NotImplementedError itself.
\* After the break, __call__ goes on to process_dataset.
PrepareBatch ==
    /\ pc = "prepare"
    /\ pos < Len(dataset)
    /\ LET batch == BatchAt(dataset, pos, batch_size)
       IN  /\ prep_log' = Append(prep_log, batch)
           /\ trace' = Append(trace, "prepare_batch")
           /\ \E signal \in (IF prep_impl THEN BOOLEAN ELSE {TRUE}) :
                IF signal /\ BreakOnNotImplemented
                THEN /\ EnterProcessDataset(CallProcessBatchSize(batch_size))
                     /\ UNCHANGED prepared
                ELSE /\ pos' = pos + batch_size
                     /\ prepared' = IF signal THEN prepared
                                    ELSE Append(prepared, batch)
                     /\ UNCHANGED <<pc, proc_batch_size, slices,
                                    all_slice_memberships>>
    /\ UNCHANGED <<retrieve_vars, filter_vars>>
    /\ UNCHANGED <<builder_vars, dataset, entry, is_raw, columns, batch_size,
                   num_proc, proc_log, avail_checks, last_available,
                   call_args, result, error>>

\* The batch loop of prepare_dataset is exhausted: prepare_dataset returns
\* and __call__ goes on to process_dataset.
PrepareExhausted ==
    /\ pc = "prepare"
    /\ pos >= Len(dataset)
    /\ EnterProcessDataset(CallProcessBatchSize(batch_size))
    /\ UNCHANGED <<retrieve_vars, filter_vars>>
    /\ UNCHANGED <<builder_vars, prepared, dataset, entry, is_raw, columns,
                   batch_size, num_proc, prep_log, proc_log, avail_checks,
                   last_available, call_args, result, error, trace>>

(***************************************************************************)
(* process_dataset                                                         *)
(***************************************************************************)
\* A caller invokes process_dataset itself.
ProcessDataset(cols, bs, np) ==
    /\ pc = "idle"
    /\ entry' = "direct"
    /\ columns' = cols
    /\ num_proc' = np
    /\ EnterProcessDataset(bs)
    /\ UNCHANGED <<retrieve_vars, filter_vars>>
    /\ UNCHANGED <<builder_vars, prepared, dataset, is_raw, batch_size,
                   prep_log, proc_log, avail_checks, last_available,
                   call_args, result, error, trace>>

\* NextPos with batches that overlap
NextPos_Overlap(p, bs) == p + 1

\* Where the batch loop of process_dataset stands after a batch
NextPos(p, bs) == p + bs

\* Propagated with the exception wrapped in another one
Propagated_Wrapped(e) == Exception("RuntimeError", e.msg, {})

\* What reaches the caller when process_batch raises e
Propagated(e) == e

\* One iteration of the batch loop of process_dataset: process_batch on the
\* next batch, which returns or raises; what it returns is appended to the
\* accumulators.
ProcessBatch ==
    /\ pc = "process"
    /\ pos < Len(dataset)
    /\ LET batch == BatchAt(dataset, pos, proc_batch_size)
           out == process_batch(kind, Len(identifiers), batch)
       IN  /\ proc_log' = Append(proc_log, batch)
           /\ trace' = Append(trace, "process_batch")
           /\ \E raises \in (IF kind = "identity" THEN {FALSE} ELSE BOOLEAN) :
                IF raises
                THEN /\ pc' = "error"
                     /\ error' = Propagated(Exception("TransformError",
                                     "raised by process_batch", {}))
                     /\ UNCHANGED <<pos, slices, all_slice_memberships>>
                ELSE /\ slices' = ZipAppend(slices, out.sliced_batches)
                     /\ all_slice_memberships' =
                            Append(all_slice_memberships, out.slice_memberships)
                     /\ pos' = NextPos(pos, proc_batch_size)
                     /\ UNCHANGED <<pc, error>>
    /\ UNCHANGED <<retrieve_vars, filter_vars>>
    /\ UNCHANGED <<builder_vars, prepared, dataset, entry, is_raw, columns,
                   batch_size, num_proc, proc_batch_size, prep_log,
                   avail_checks, last_available, call_args, result>>

IsException(x) == "type" \in DOMAIN x

\* After the batch loop of process_dataset: the submatrices are
\* concatenated, then the accumulators, each slice is tagged, and the pair
\* is returned.
Assemble ==
    /\ pc = "process"
    /\ pos >= Len(dataset)
    /\ LET slice_membership == np_concatenate(all_slice_memberships)
       IN  IF IsException(slice_membership)
           THEN /\ pc' = "error"
                /\ error' = Exception(slice_membership.type,
                                      slice_membership.msg, {})
                /\ trace' = Append(trace, "concatenate")
                /\ UNCHANGED result
           ELSE /\ pc' = "done"
                /\ result' =
                     [slices |-> FinalSlices(slices, category, identifiers,
                                             columns),
                      slice_membership |-> slice_membership]
                /\ trace' = trace \o <<"concatenate">>
                              \o [j \in 1..Len(slices) |-> "add_to_lineage"]
                /\ UNCHANGED error
    /\ UNCHANGED <<retrieve_vars, filter_vars>>
    /\ UNCHANGED <<builder_vars, prepared, dataset, entry, is_raw, columns,
                   batch_size, num_proc, proc_batch_size, pos, prep_log,
                   proc_log, avail_checks, last_available, call_args, slices,
                   all_slice_memberships>>

BatchSizes == 1..MaxBatchSize

Next ==
    \/ \E raw \in BOOLEAN, cols \in ColumnLists, np \in NumProcs,
          bs \in BatchSizes \cup {CallDefaultBatchSize} :
            Call(raw, cols, bs, np)
    \/ PrerequisitesHandler
    \/ PrepareBatch
    \/ PrepareExhausted
    \/ \E cols \in ColumnLists, np \in NumProcs,
          bs \in BatchSizes \cup {ProcessDefaultBatchSize} :
            ProcessDataset(cols, bs, np)
    \/ ProcessBatch
    \/ Assemble

Spec == Init /\ [][Next]_vars

(***************************************************************************)
(* The retrieval path, on a dataset that a producing run left behind.      *)
(***************************************************************************)
InitRetrieve ==
    /\ identifiers = Identifiers(1)
    /\ category = "generic"
    /\ prerequisites = {}
    /\ kind = "identity"
    /\ prep_impl = FALSE
    /\ dataset = <<>>
    /\ Idle
    /\ \E b \in RBatches :
         /\ ValidRBatch(b)
         /\ r_batch = [b EXCEPT !.cache =
                          [i \in 1..Len(b.cache) |-> EntryOf(i, b.cache[i])]]
    /\ r_args = None
    /\ r_out = NoOutcome
    /\ NoFilterCall

\* A caller invokes retrieve on the dataset.
Retrieve(cols, proc_fns, identifier, reapply) ==
    /\ r_out.status = "none"
    /\ r_args' = [columns |-> cols, proc_fns |-> proc_fns,
                  identifier |-> identifier, reapply |-> reapply]
    /\ \E column_error \in ColumnErrors :
         r_out' = retrieve(r_batch, cols, proc_fns, identifier, reapply,
                           column_error)
    /\ UNCHANGED <<builder_vars, call_vars, r_batch, filter_vars>>

NextRetrieve ==
    \E cols \in ColumnArgs, proc_fns \in BOOLEAN,
       identifier \in IdentifierArgs, reapply \in BOOLEAN :
        Retrieve(cols, proc_fns, identifier, reapply)

SpecRetrieve == InitRetrieve /\ [][NextRetrieve]_vars

(***************************************************************************)
(* filter_batch_by_slice_membership on a batch and a matrix over its rows. *)
(***************************************************************************)
InitFilter ==
    /\ identifiers = Identifiers(1)
    /\ category = "generic"
    /\ prerequisites = {}
    /\ kind = "identity"
    /\ prep_impl = FALSE
    /\ dataset = <<>>
    /\ Idle
    /\ r_batch = NoBatch
    /\ r_args = None
    /\ r_out = NoOutcome
    /\ \E n \in 0..MaxRows, m \in 0..MaxSlices, cols \in SUBSET BatchColumns :
         /\ f_batch = MakeBatch(cols, n)
         /\ f_matrix \in Matrices(n, m)
    /\ f_out = [status |-> "none", value |-> <<>>]

\* A caller invokes filter_batch_by_slice_membership.
FilterBatch ==
    /\ f_out.status = "none"
    /\ f_out' = [status |-> "returned",
                 value |-> filter_batch_by_slice_membership(f_batch, f_matrix)]
    /\ UNCHANGED <<builder_vars, call_vars, retrieve_vars, f_batch, f_matrix>>

NextFilter == FilterBatch

SpecFilter == InitFilter /\ [][NextFilter]_vars

(***************************************************************************)
(* Properties.                                                             *)
(***************************************************************************)
\* The transformer honours its contract: num_slices sub-batches and a
\* submatrix of shape (len(batch), num_slices), by a per-example rule.
Conforming == kind \in {"mod", "all", "first"}

\* process_dataset ran its batch loop to the end, no process_batch raising
LoopEnded == pc = "done" \/ (pc = "error" /\ error.type = "ValueError")

\* C1: for a conforming transformer, process_dataset completes and returns
\* exactly num_slices slices and a membership matrix of num_slices columns,
\* for every dataset size, 0 included, and every batch size.
C1_ReturnsKSlicesForEverySize ==
    (Conforming /\ LoopEnded) =>
        /\ pc = "done"
        /\ Len(result.slices) = num_slices
        /\ result.slice_membership.ncols = num_slices

\* C2: for a conforming transformer, row i of the returned matrix is the
\* membership of example i of the dataset, and slice j holds exactly the
\* examples whose column j is true, in the dataset's order.
C2_RowsAndSlicesFollowTheDataset ==
    (Conforming /\ pc = "done") =>
        LET m == result.slice_membership
        IN  /\ Len(m.rows) = Len(dataset)
            /\ \A i \in 1..Len(dataset) : \A j \in 1..num_slices :
                 m.rows[i][j] = Member(kind, num_slices, i - 1, j - 1)
            /\ \A j \in 1..num_slices :
                 result.slices[j].rows = compress(dataset, Column(m, j))

\* The scenario of C2: 2 identifiers, even index -> slice 0, odd -> slice 1,
\* 4 examples, batch size 3.
C2_Witness ==
    /\ pc = "done"
    /\ kind = "mod"
    /\ num_slices = 2
    /\ Len(dataset) = 4
    /\ proc_batch_size = 3
    /\ result.slices[1].rows = <<0, 2>>
    /\ result.slices[2].rows = <<1, 3>>
    /\ result.slice_membership.rows =
         << <<TRUE, FALSE>>, <<FALSE, TRUE>>, <<TRUE, FALSE>>, <<FALSE, TRUE>> >>

\* What process_dataset returns when the whole dataset is one batch
OneBatchResult ==
    LET out == process_batch(kind, num_slices, dataset)
    IN  [slices |->
            FinalSlices(ZipAppend(EmptyAccumulators(num_slices),
                                  out.sliced_batches),
                        category, identifiers, columns),
         slice_membership |-> np_concatenate(<<out.slice_memberships>>)]

\* C3: whatever the batch size and num_proc, process_dataset returns what
\* it returns when the whole dataset is one batch: same slices, same matrix,
\* same row order.
C3_ResultIndependentOfBatching ==
    pc = "done" => result = OneBatchResult

\* A run of C3 with a batch size that does not divide the dataset size and
\* with num_proc set
C3_Witness ==
    /\ pc = "done"
    /\ Len(dataset) = 5
    /\ proc_batch_size = 2
    /\ num_proc # None
    /\ kind = "all"
    /\ num_slices = 2

\* C4: the identity builder (one identifier, process_batch not overridden)
\* over n >= 1 examples completes and returns 1 slice equal to the dataset,
\* with no matrix or an all-true matrix of shape (n, 1).
C4_IdentityBuilderReturnsTheDataset ==
    (kind = "identity" /\ num_slices = 1 /\ Len(dataset) >= 1 /\ LoopEnded) =>
        /\ pc = "done"
        /\ Len(result.slices) = 1
        /\ result.slices[1].rows = dataset
        /\ \/ result.slice_membership = None
           \/ result.slice_membership =
                [ncols |-> 1, rows |-> [i \in 1..Len(dataset) |-> <<TRUE>>]]

\* The batches of a log cover the dataset exactly once, in order
Covers(log) == Flatten(log) = dataset

\* C5: in a top-level call with batch size b, every batch handed to
\* prepare_batch and to process_batch has at most b examples, and the
\* batches of a finished pass cover the dataset once, in order.
C5_BatchesAtMostTheCallBatchSize ==
    entry = "call" =>
        /\ \A x \in 1..Len(prep_log) :
             Len(prep_log[x]) <= call_args.batch_size
        /\ \A x \in 1..Len(proc_log) :
             Len(proc_log[x]) <= call_args.batch_size
        /\ pc = "done" => Covers(proc_log)

\* C6: when a prerequisite reports unavailable, the call fails with the
\* RuntimeError that names exactly the unavailable prerequisites, no batch is
\* prepared or transformed, and nothing is returned.
C6_UnmetPrerequisiteStopsTheCall ==
    (last_available # None /\ prerequisites \ last_available.set # {}) =>
        /\ pc = "error"
        /\ error.type = "RuntimeError"
        /\ error.pending = prerequisites \ last_available.set
        /\ prep_log = <<>>
        /\ proc_log = <<>>
        /\ result = None

\* One of two prerequisites is unavailable, and the error names it alone
C6_Witness ==
    /\ pc = "error"
    /\ prerequisites = {"p1", "p2"}
    /\ last_available = [set |-> {"p2"}]
    /\ error.pending = {"p1"}
    /\ Len(dataset) > 0

\* C7: for a builder without prepare_batch, the hook is invoked on the first
\* batch at most, the loop stops there, nothing is raised, and the call is
\* in the transform pass from then on.
C7_UnimplementedPrepareStopsAtFirstBatch ==
    (entry = "call" /\ ~prep_impl) =>
        /\ Len(prep_log) <= 1
        /\ prepared = <<>>
        /\ prep_log # <<>> =>
             /\ prep_log[1] = BatchAt(dataset, 0, batch_size)
             /\ pc \in {"process", "done", "error"}
        /\ pc = "error" =>
             error.type \in {"RuntimeError", "TransformError", "ValueError"}

\* A dataset of several batches, of which only the first was handed to the
\* hook, and the call completed
C7_Witness ==
    /\ entry = "call"
    /\ ~prep_impl
    /\ Len(dataset) > 2 * batch_size
    /\ Len(prep_log) = 1
    /\ pc = "done"

\* C8: when process_batch raises on a batch, no later batch is transformed,
\* nothing is returned, and the caller gets the transformer's exception as
\* it was raised.
C8_TransformFailureAbortsTheRun ==
    (pc = "error" /\ Len(proc_log) > Len(all_slice_memberships)) =>
        /\ error = Exception("TransformError", "raised by process_batch", {})
        /\ Len(proc_log) = Len(all_slice_memberships) + 1
        /\ result = None
        /\ ~ENABLED ProcessBatch
        /\ ~ENABLED Assemble

\* process_batch raised on a batch after the first, with batches left
C8_Witness ==
    /\ pc = "error"
    /\ error.type = "TransformError"
    /\ Len(proc_log) = 2
    /\ Flatten(proc_log) # dataset
    /\ \E j \in 1..Len(slices) : Flatten(slices[j]) # <<>>

\* C9: retrieve without reapply on a dataset without a cache column
\* returns None and does not raise, whatever else the dataset carries.
C9_NoCacheColumnReturnsNone ==
    (r_out.status # "none" /\ ~r_args.reapply
        /\ "cache" \notin r_batch.column_names) =>
        r_out = Returned(None)

\* The identifier string retrieve looks up
LookedUp ==
    IF r_args.identifier # None THEN r_args.identifier.str
    ELSE str(InferIdentifier(r_batch.slices0_keys))

\* C10: retrieve without reapply on a dataset with a cache column, of which
\* an entry lacks the identifier or a requested column-set key, fails with
\* the one ValueError and returns nothing.
C10_MissingKeyIsOneValueError ==
    (r_out.status # "none" /\ ~r_args.reapply
        /\ "cache" \in r_batch.column_names
        /\ \E i \in 1..Len(r_batch.cache), l \in 1..Len(r_args.columns.lists) :
             KeyMissing(r_batch.cache[i], LookedUp, r_args.columns.lists[l])) =>
        r_out = OnKeyError

\* Every entry of the cache column holds the looked-up identifier and every
\* requested column-set key
AllKeysCached ==
    /\ "cache" \in r_batch.column_names
    /\ \A i \in 1..Len(r_batch.cache), l \in 1..Len(r_args.columns.lists) :
         ~KeyMissing(r_batch.cache[i], LookedUp, r_args.columns.lists[l])

\* C11: retrieve without reapply returns None only on a dataset without
\* cache data; when every cache entry holds the identifier and every
\* requested column-set key it returns the mapping from each column-set key
\* to the decoded values in example order, for one list or a list of lists,
\* with or without process functions.
C11_CachedResultIsReturned ==
    (r_out.status # "none" /\ ~r_args.reapply) =>
        /\ r_out = Returned(None) => "cache" \notin r_batch.column_names
        /\ (AllKeysCached /\ r_args.columns.kind # "empty") =>
             r_out = Returned([dict |->
                         Retrieval(r_batch, LookedUp, r_args.columns.lists)])

\* The keys of a cache entry that start with the class name
Prefixed(cache) == {k \in DOMAIN cache : startswith(k, ClsName)}

\* C12: without an identifier, retrieve on a dataset with its "slices" and
\* "cache" columns looks up the first key of the first cache entry that
\* starts with the builder's class name; when that entry has one such key
\* it is the one looked up, and when it has none the lookup fails with the
\* retrieval error.
C12_IdentifierInferredFromFirstCacheEntry ==
    (r_out.status # "none" /\ ~r_args.reapply /\ r_args.identifier = None
        /\ {"slices", "cache"} \subseteq r_batch.column_names
        /\ r_batch.length > 0 /\ r_args.columns.kind # "empty") =>
        /\ \A k \in Prefixed(r_batch.cache[1]) :
             Prefixed(r_batch.cache[1]) = {k} => LookedUp = k
        /\ Prefixed(r_batch.cache[1]) = {} => r_out = OnKeyError

\* The rows of a matrix that are true in column j, from row r on, in order
RECURSIVE RowsIn(_, _, _)
RowsIn(m, j, r) ==
    IF r > Len(m.rows) THEN <<>>
    ELSE (IF m.rows[r][j] THEN <<r>> ELSE <<>>) \o RowsIn(m, j, r + 1)

\* C13: filter_batch_by_slice_membership on a batch of n rows and a matrix
\* of shape (n, m) returns m elements; element j has the columns of the
\* batch and exactly the rows whose entry in column j is true, in their
\* order; the batch is as it was.
C13_FilterSelectsRowsByColumn ==
    f_out.status = "returned" =>
        /\ Len(f_out.value) = f_matrix.ncols
        /\ \A j \in 1..f_matrix.ncols :
             LET picked == RowsIn(f_matrix, j, 1)
             IN  /\ DOMAIN f_out.value[j] = DOMAIN f_batch
                 /\ \A c \in DOMAIN f_batch :
                      f_out.value[j][c] =
                        [t \in 1..Len(picked) |-> f_batch[c][picked[t]]]
        /\ f_batch = MakeBatch(DOMAIN f_batch, Len(f_matrix.rows))

\* Three rows and two slices: a row in both slices and a row in neither
C13_Witness ==
    /\ f_out.status = "returned"
    /\ DOMAIN f_batch = {"text", "label"}
    /\ f_matrix.rows = << <<TRUE, TRUE>>, <<FALSE, FALSE>>, <<FALSE, TRUE>> >>
    /\ f_out.value[1]["text"] = <<0>>
    /\ f_out.value[2]["text"] = <<0, 2>>
    /\ f_out.value[2]["label"] = <<0, 0>>

\* C14: in a top-level call, on a dataset or on a raw input, the
\* availability check of each prerequisite is evaluated exactly once, and
\* before any batch is prepared or transformed.
C14_PrerequisitesCheckedOncePerCall ==
    entry = "call" =>
        /\ pc = "prereq" => (prep_log = <<>> /\ proc_log = <<>>)
        /\ pc \notin {"idle", "prereq"} =>
             avail_checks = Cardinality(prerequisites)

\* C16: a call on a raw input with arguments (columns, batch_size, num_proc)
\* behaves like the call on the wrapped dataset with the same arguments: the
\* passes run with the batch size and num_proc of the call, and
\* prepare_batch is handed the batches of that size.
C16_RawInputCallKeepsItsArguments ==
    (entry = "call" /\ pc \in {"prepare", "process", "done"}) =>
        /\ columns = call_args.columns
        /\ batch_size = call_args.batch_size
        /\ num_proc = call_args.num_proc
        /\ \A i \in 1..Len(prep_log) :
             prep_log[i] = BatchAt(dataset, (i - 1) * call_args.batch_size,
                                   call_args.batch_size)

\* C17: retrieve in reapply mode returns a freshly computed result, never
\* None, whatever the cache holds; retrieve without reapply never runs the
\* transformer.
C17_ReapplyRecomputes ==
    r_out.status # "none" =>
        /\ r_args.reapply => (r_out.status = "returned" /\ r_out.value # None)
        /\ ~r_args.reapply => proc_log = <<>>

\* The number of entries of a sequence that equal x
Count(seq, x) == Cardinality({i \in 1..Len(seq) : seq[i] = x})

\* The JSON text of the two column lists of the model
EncodingOf(cols) ==
    IF cols = <<"a", "b">> THEN "[\"a\", \"b\"]" ELSE "[\"b\", \"a\"]"

Rank(step) ==
    CASE step = "prerequisites_handler" -> 1
      [] step = "prepare_batch" -> 2
      [] step = "process_batch" -> 3
      [] step = "concatenate" -> 4
      [] step = "add_to_lineage" -> 5

\* The examples of a log of batches are the first examples of the dataset,
\* in the dataset's order
InDatasetOrder(log) ==
    /\ \A i \in 1..Len(log) : log[i] # <<>>
    /\ Flatten(log) = SubSeq(dataset, 1, Len(Flatten(log)))

\* C18: in a successful call on a dataset the prerequisite check comes
\* first, then the preparation pass over batches in dataset order, which is
\* over before the first process_batch, then process_batch once per batch in
\* dataset order, then the concatenation, and the lineage after it.
C18_PhasesInOrder ==
    (entry = "call" /\ ~call_args.raw /\ pc = "done") =>
        /\ trace[1] = "prerequisites_handler"
        /\ Count(trace, "prerequisites_handler") = 1
        /\ \A i \in 1..(Len(trace) - 1) : Rank(trace[i]) <= Rank(trace[i + 1])
        /\ Count(trace, "prepare_batch") = Len(prep_log)
        /\ InDatasetOrder(prep_log)
        /\ Count(trace, "process_batch") = Len(proc_log)
        /\ InDatasetOrder(proc_log)
        /\ Flatten(proc_log) = dataset
        /\ Count(trace, "concatenate") = 1
        /\ Count(trace, "add_to_lineage") = num_slices

\* A call on a dataset with a prerequisite, a preparation pass of several
\* batches, and two slices
C18_Witness ==
    /\ entry = "call" /\ ~call_args.raw /\ pc = "done"
    /\ prerequisites # {}
    /\ Len(prep_log) = 3
    /\ Len(proc_log) >= 1
    /\ num_slices = 2
    /\ trace[Len(trace)] = "add_to_lineage"

\* The builder's transformer returns one sub-batch too few or one too many
WrongLength == kind \in {"short", "long"}

\* C19: when the transformer returns a list of sub-batches whose length is
\* not num_slices, process_dataset raises nothing for it and returns
\* num_slices slices: a sub-batch beyond num_slices is dropped, and the
\* slice whose sub-batch is missing stays empty, whatever its column of the
\* matrix selects.
C19_WrongLengthListIsTruncatedSilently ==
    (WrongLength /\ proc_log # <<>>) =>
        /\ pc = "error" => error.type = "TransformError"
        /\ pc = "process" => Len(slices) = num_slices
        /\ pc = "done" =>
             /\ Len(result.slices) = num_slices
             /\ \A j \in 1..num_slices :
                  result.slices[j].rows =
                    IF kind = "short" /\ j = num_slices THEN <<>>
                    ELSE compress(dataset, Column(result.slice_membership, j))

\* A run over several batches of a two-slice builder whose transformer
\* returns one sub-batch: the second slice is empty although its column
\* selects examples
C19_Witness ==
    /\ kind = "short" /\ num_slices = 2 /\ pc = "done"
    /\ Len(proc_log) >= 2
    /\ result.slices[1].rows # <<>>
    /\ result.slices[2].rows = <<>>
    /\ \E r \in 1..Len(result.slice_membership.rows) :
         result.slice_membership.rows[r][2]

\* prepare_batch raised NotImplementedError on the last batch it was handed:
\* that batch did not update the builder's state
SignalRaised == Len(prep_log) = Len(prepared) + 1

\* C20: when a builder that implements prepare_batch raises
\* NotImplementedError on a batch, the batches before it have updated the
\* builder's state, the preparation pass is over and no later batch is
\* prepared, nothing is raised to the caller, and the call is in or past
\* the transform pass with the state accumulated so far.
C20_SignalEndsThePreparationSilently ==
    (prep_impl /\ entry = "call") =>
        /\ Len(prep_log) <= Len(prepared) + 1
        /\ prepared = SubSeq(prep_log, 1, Len(prepared))
        /\ InDatasetOrder(prep_log)
        /\ SignalRaised =>
             /\ pc \in {"process", "done", "error"}
             /\ pc = "error" => error.type \in {"TransformError", "ValueError"}
             /\ pc = "done" => result # None

\* The signal on the third batch of a longer dataset: two batches updated
\* the state, the rest was never prepared, and the call returned
C20_Witness ==
    /\ prep_impl /\ entry = "call" /\ pc = "done"
    /\ SignalRaised
    /\ Len(prepared) = 2
    /\ Len(Flatten(prep_log)) < Len(dataset)
    /\ Flatten(proc_log) = dataset

====
